---- MODULE Spec2Model ----
(***************************************************************************)
(* m_totp (InspIRCd 2.0 contrib module): the Base32 codec, the TOTP        *)
(* engine (Generate / Validate) and the module hooks (OnRehash,            *)
(* OnPreCommand) of src/2.0/m_totp.cpp.                                    *)
(*                                                                         *)
(* Strings are sequences of one-character strings, byte strings are        *)
(* sequences of 0..255.  A 32-bit unsigned value is kept as two 16-bit     *)
(* halves [hi, lo] so that the arithmetic stays exact inside TLC's         *)
(* integer range.                                                          *)
(***************************************************************************)
EXTENDS Integers, Sequences, FiniteSets, TLC

VARIABLES
    hashName,   \* name the dynamic_reference Hash is bound to (SetProvider)
    loaded,     \* hash provider services currently registered in the server
    Window,     \* TOTP::Window
    now,        \* ServerInstance->Time()
    call,       \* the last engine / hook invocation: its inputs and its result
    cop,        \* codec: the last codec operation
    input,      \* codec: the byte string given to Encode
    elen,       \* codec: the len argument given to Encode
    enc,        \* codec: the string Encode returned
    text,       \* codec: the string given to Decode
    dec,        \* codec: the bytes Decode returned
    dec2        \* codec: the bytes Decode returned for the filtered string

vars == <<hashName, loaded, Window, now, call, cop, input, elen, enc, text, dec, dec2>>
engineVars == <<hashName, loaded, Window, now, call>>
codecVars == <<cop, input, elen, enc, text, dec, dec2>>

----------------------------------------------------------------------------
(* Bounds *)

MaxLen == 6
MaxText == 4
MaxWindow == 2
MaxTicks == 4
MaxCounter == 5

(* byte values the codec inputs are drawn from *)
ByteVals == {0, 165, 255}

(* characters the Decode inputs are drawn from: alphabet symbols and others *)
TextChars == {"B", "7", "Q", "-", "="}

(* outcomes of the undefined operations of Decode *)
UndefShift == {0, 1}

RECURSIVE SeqsUpTo(_, _)
SeqsUpTo(S, n) ==
    IF n = 0 THEN {<< >>}
    ELSE LET shorter == SeqsUpTo(S, n - 1)
         IN  shorter \cup {Append(s, x) : s \in {t \in shorter : Len(t) = n - 1}, x \in S}

(* fixed leading 5-byte blocks, so that inputs of two and three blocks occur *)
FirstBlocks == {<<72, 101, 108, 108, 111>>, <<255, 0, 165, 1, 128>>}

ShortSeqs == SeqsUpTo(ByteVals, MaxLen)
ByteSeqs == ShortSeqs \cup {b \o s : b \in FirstBlocks, s \in ShortSeqs}
Texts == SeqsUpTo(TextChars, MaxText)
CodecUB == [shift : UndefShift, kept : BOOLEAN]

(* bytes found past the end of the digest buffer *)
JunkBytes == {0, 255}
EngineUB == [shift : UndefShift, kept : BOOLEAN, junk : JunkBytes]

TickSeconds == 15
DefaultWindow == 5

----------------------------------------------------------------------------
(* Bit arithmetic on naturals *)

RECURSIVE Pow2(_)
Pow2(k) == IF k = 0 THEN 1 ELSE 2 * Pow2(k - 1)

Shl(x, k) == x * Pow2(k)
Shr(x, k) == x \div Pow2(k)

RECURSIVE BitAnd(_, _)
BitAnd(a, b) ==
    IF a = 0 \/ b = 0 THEN 0
    ELSE (IF a % 2 = 1 /\ b % 2 = 1 THEN 1 ELSE 0) + 2 * BitAnd(a \div 2, b \div 2)

RECURSIVE BitOr(_, _)
BitOr(a, b) ==
    IF a = 0 THEN b
    ELSE IF b = 0 THEN a
    ELSE (IF a % 2 = 1 \/ b % 2 = 1 THEN 1 ELSE 0) + 2 * BitOr(a \div 2, b \div 2)

(* unsigned int: [hi, lo], value hi * 65536 + lo *)
U32Zero == [hi |-> 0, lo |-> 0]

U32Shl(x, k) ==
    [hi |-> (Shl(x.hi, k) + Shr(x.lo, 16 - k)) % 65536,
     lo |-> Shl(x.lo, k) % 65536]

U32OrSmall(x, v) == [hi |-> x.hi, lo |-> BitOr(x.lo, v)]

(* (x >> s) & 0xff for 0 <= s <= 8 *)
U32ShrByte(x, s) == (Shr(x.lo, s) + Shl(x.hi % Pow2(s), 16 - s)) % 256

----------------------------------------------------------------------------
(* Base32 *)

Base32Chars ==
    << "A", "B", "C", "D", "E", "F", "G", "H", "I", "J", "K", "L", "M",
       "N", "O", "P", "Q", "R", "S", "T", "U", "V", "W", "X", "Y", "Z",
       "2", "3", "4", "5", "6", "7" >>

npos == 2147483647

(* Base32Chars[i] with the 0-based index of the code *)
Sym(i) == Base32Chars[i + 1]

(* Base32Chars.find(c) *)
Find(c) ==
    IF \E i \in 1..Len(Base32Chars) : Base32Chars[i] = c
    THEN (CHOOSE i \in 1..Len(Base32Chars) : Base32Chars[i] = c) - 1
    ELSE npos

(* std::vector::resize / std::string::resize with value-initialised fill *)
Resize(s, n, fill) == [i \in 1..n |-> IF i <= Len(s) THEN s[i] ELSE fill]

(* n copies of c *)
Fill(n, c) == [i \in 1..n |-> c]

(* EncodeBlock with the last symbol masked by 0x0f instead of 0x1f *)
EncodeBlockLowMask(data, i) ==
    LET d(k) == data[i * 5 + k + 1] IN
    << Sym(Shr(d(0), 3)),
       Sym(BitOr(Shl(BitAnd(d(0), 7), 2), Shr(d(1), 6))),
       Sym(Shr(BitAnd(d(1), 63), 1)),
       Sym(BitOr(Shl(BitAnd(d(1), 1), 4), Shr(d(2), 4))),
       Sym(BitOr(Shl(BitAnd(d(2), 15), 1), Shr(d(3), 7))),
       Sym(Shr(BitAnd(d(3), 127), 2)),
       Sym(BitOr(Shl(BitAnd(d(3), 3), 3), Shr(d(4), 5))),
       Sym(BitAnd(d(4), 15)) >>

(* the eight symbols of block i (0-based) of data *)
EncodeBlock(data, i) ==
    LET d(k) == data[i * 5 + k + 1] IN
    << Sym(Shr(d(0), 3)),
       Sym(BitOr(Shl(BitAnd(d(0), 7), 2), Shr(d(1), 6))),
       Sym(Shr(BitAnd(d(1), 63), 1)),
       Sym(BitOr(Shl(BitAnd(d(1), 1), 4), Shr(d(2), 4))),
       Sym(BitOr(Shl(BitAnd(d(2), 15), 1), Shr(d(3), 7))),
       Sym(Shr(BitAnd(d(3), 127), 2)),
       Sym(BitOr(Shl(BitAnd(d(3), 3), 3), Shr(d(4), 5))),
       Sym(BitAnd(d(4), 31)) >>

RECURSIVE EncodeBlocks(_, _, _)
EncodeBlocks(data, i, blocks) ==
    IF i >= blocks THEN << >>
    ELSE EncodeBlock(data, i) \o EncodeBlocks(data, i + 1, blocks)

(* the padding table of RFC 4648: 4 characters for a remainder of 2 *)
PaddingRFC(rest) ==
    IF rest = 1 THEN 6
    ELSE IF rest = 2 THEN 4
    ELSE IF rest = 3 THEN 3
    ELSE IF rest = 4 THEN 1
    ELSE 0

(* short padding = rest == 1 ? 6 : rest == 2 ? 3 : rest == 3 ? 3 : rest == 4 ? 1 : 0 *)
Padding(rest) ==
    IF rest = 1 THEN 6
    ELSE IF rest = 2 THEN 3
    ELSE IF rest = 3 THEN 3
    ELSE IF rest = 4 THEN 1
    ELSE 0

(* Base32::Encode(input, len) *)
Encode(in, len0) ==
    LET len    == IF len0 = 0 THEN Len(in) ELSE len0
        rest   == len % 5
        blocks == (len \div 5) + (IF rest # 0 THEN 1 ELSE 0)
        data0  == Resize(in, len, 0)
        data   == IF rest # 0 THEN Resize(data0, Len(data0) + 5 - rest, 0) ELSE data0
        ret    == EncodeBlocks(data, 0, blocks)
        padding == Padding(rest)
    IN  SubSeq(ret, 1, Len(ret) - padding) \o Fill(padding, "=")

(* The loop of Base32::Decode over data[i..]; st = [buffer, left, out]. *)
RECURSIVE DecodeLoop(_, _, _)
DecodeLoop(data, i, st) ==
    IF i > Len(data) THEN st
    ELSE
        LET val == Find(data[i]) IN
        IF val >= 32 THEN DecodeLoop(data, i + 1, st)
        ELSE
            LET buffer == U32OrSmall(U32Shl(st.buffer, 5), val)
                left   == st.left + 5
            IN  IF left >= 8
                THEN DecodeLoop(data, i + 1,
                        [buffer |-> buffer,
                         left   |-> left - 8,
                         out    |-> Append(st.out, U32ShrByte(buffer, left - 8))])
                ELSE DecodeLoop(data, i + 1,
                        [buffer |-> buffer, left |-> left, out |-> st.out])

(* The byte stored by "ret[count++] = (buffer >> (left - 3)) & 0xff".      *)
(* left is a size_t: for left < 3 the shift count wraps to a value >= 32,  *)
(* which is undefined for a 32-bit operand; ub.shift is what the build     *)
(* yields there.                                                           *)
TailByte(buffer, left, ub) ==
    IF left >= 3 THEN U32ShrByte(U32Shl(buffer, 5), left - 3)
    ELSE ub.shift

(* Base32::Decode(data).  ret is sized (data.length() * 5) / 8 up front;   *)
(* the tail byte is stored at index count, which is one past the end of    *)
(* ret when no skipped character enlarged that size, and ret.resize(count) *)
(* then grows ret by one value-initialised character: ub.kept tells        *)
(* whether the out-of-range store survives the resize.                     *)
Decode(data, ub) ==
    LET size == (Len(data) * 5) \div 8
        st   == DecodeLoop(data, 1, [buffer |-> U32Zero, left |-> 0, out |-> << >>])
        count == Len(st.out)
    IN  IF st.left = 0 THEN st.out
        ELSE IF count < size \/ ub.kept
             THEN Append(st.out, TailByte(st.buffer, st.left, ub))
             ELSE Append(st.out, 0)

----------------------------------------------------------------------------
(* Hash providers (hash.h, external to the module) *)

(* Hash.SetProvider("hash/" + name) binds any name the <totp> tag gives;   *)
(* md5 and sha256 are providers of the server, sha1 the one the module's   *)
(* note asks for.  NoHash is the unresolved reference (!Hash).             *)
NoHash == "none"
ProviderNames == {"md5", "sha1", "sha256"}

(* HashProvider::out_size *)
OutSize(name) ==
    IF name = "md5" THEN 16
    ELSE IF name = "sha1" THEN 20
    ELSE 32

RECURSIVE WeightedSum(_, _)
WeightedSum(s, i) ==
    IF i > Len(s) THEN 0
    ELSE s[i] * (2 * i + 1) + WeightedSum(s, i + 1)

(* HashProvider::hmac(key, msg): a deterministic function of the provider, *)
(* the key and the message that yields out_size bytes.                     *)
hmac(name, key, msg) ==
    LET seed == WeightedSum(key, 1) + 3 * WeightedSum(msg, 1) + OutSize(name)
    IN  [j \in 1..OutSize(name) |-> (seed * (2 * j + 1) + 13 * j * j + (seed \div 7)) % 256]

----------------------------------------------------------------------------
(* TOTP *)

(* unsigned long: value v when ~high, 2^64 + v (v < 0) when high *)
ToULong(s) == [high |-> s < 0, v |-> s]
ULess(a, b) == IF a.high = b.high THEN a.v < b.v ELSE b.high
UInc(a) == IF a.high /\ a.v = -1 THEN [high |-> FALSE, v |-> 0] ELSE [high |-> a.high, v |-> a.v + 1]

(* signed division of C++: truncation toward zero *)
TruncDiv(a, b) == IF a >= 0 THEN a \div b ELSE -((-a) \div b)

(* for (int i = 8; i--; time >>= 8) challenge[i] = time; *)
RECURSIVE Challenge(_, _, _)
Challenge(ch, i, time) ==
    IF i = 0 THEN ch
    ELSE Challenge([ch EXCEPT ![i] = time % 256], i - 1, time \div 256)

(* (unsigned char)hash[idx]; a read at or past hash.length() yields ub.junk *)
HashAt(hash, idx, ub) == IF idx < Len(hash) THEN hash[idx + 1] ELSE ub.junk

(* offset = hash[Hash->out_size - 1] & 0xF *)
Offset(name, hash) == BitAnd(hash[OutSize(name)], 15)

RECURSIVE TruncLoop(_, _, _, _, _)
TruncLoop(hash, offset, i, acc, ub) ==
    IF i >= 4 THEN acc
    ELSE TruncLoop(hash, offset, i + 1,
                   [hi |-> U32Shl(acc, 8).hi,
                    lo |-> BitOr(U32Shl(acc, 8).lo, HashAt(hash, offset + i, ub))],
                   ub)

Digits == << "0", "1", "2", "3", "4", "5", "6", "7", "8", "9" >>

RECURSIVE ConvToStr(_)
ConvToStr(n) ==
    IF n < 10 THEN << Digits[n + 1] >>
    ELSE Append(ConvToStr(n \div 10), Digits[(n % 10) + 1])

(* ZeroPad without the insertion of the leading zeros *)
ZeroPadNone(ret) == ret

(* ret.insert(0, 6 - ret.length(), '0') *)
ZeroPad(ret) == Fill(6 - Len(ret), "0") \o ret

(* truncatedHash &= 0x7FFFFFFF; truncatedHash %= 1000000 *)
Reduce(t) == (BitAnd(t.hi, 32767) * 65536 + t.lo) % 1000000

(* the digest Generate computes; hash is the provider the reference resolves to *)
Digest(hash, secret, time, ub) ==
    hmac(hash, Decode(secret, ub), Challenge([i \in 1..8 |-> 0], 8, time.v))

(* TOTP::Generate(secret, time) *)
Generate(hash, secret, time, ub) ==
    IF hash = NoHash THEN << >>
    ELSE LET digest == Digest(hash, secret, time, ub)
             offset == Offset(hash, digest)
             truncatedHash == TruncLoop(digest, offset, 0, U32Zero, ub)
         IN  ZeroPad(ConvToStr(Reduce(truncatedHash)))

RECURSIVE ValidateLoop(_, _, _, _, _, _)
ValidateLoop(hash, secret, code, time, time_end, ub) ==
    IF ~ULess(time, time_end) THEN FALSE
    ELSE IF Generate(hash, secret, time, ub) = code THEN TRUE
    ELSE ValidateLoop(hash, secret, code, UInc(time), time_end, ub)

(* TOTP::Validate(secret, code) with Window = window, Time() = t *)
Validate(hash, window, t, secret, code, ub) ==
    ValidateLoop(hash, secret, code,
                 ToULong(TruncDiv(t - 30 * window, 30)),
                 ToULong(TruncDiv(t + 30 * window, 30)), ub)

----------------------------------------------------------------------------
(* Configuration: <oper> blocks and the secrets used by the calls *)

(* "JBSWY3DP": 5 bytes, no padding *)
SecretAligned == << "J", "B", "S", "W", "Y", "3", "D", "P" >>
(* "MZXW6===": 3 bytes in RFC 4648 padding *)
SecretPadded == << "M", "Z", "X", "W", "6", "=", "=", "=" >>
Secrets == {SecretAligned, SecretPadded}

(* oper_blocks: "admin" has a totpsecret, "plain" has none *)
OperNames == {"admin", "plain"}
HasSecret(name) == name = "admin"
SecretOf(name) == SecretAligned

PASSTHRU == "MOD_RES_PASSTHRU"
DENY == "MOD_RES_DENY"

FloodPenalty == 10000

(* parameters[1].rfind(' '), 0-based *)
RFind(str, c) ==
    IF \E i \in 1..Len(str) : str[i] = c
    THEN (CHOOSE i \in 1..Len(str) : str[i] = c /\ \A j \in (i + 1)..Len(str) : str[j] # c) - 1
    ELSE npos

(* ModuleTOTP::OnPreCommand: the ModResult, the parameters as the hook     *)
(* leaves them, the numeric sent and the flood penalty added               *)
PreCommand(hash, window, t, command, parameters, validated, ub) ==
    LET pass == [res |-> PASSTHRU, parameters |-> parameters, numeric |-> "", penalty |-> 0] IN
    IF validated /\ command = "OPER" /\ Len(parameters) > 1
    THEN IF parameters[1] \notin OperNames THEN pass
         ELSE IF ~HasSecret(parameters[1]) THEN pass
         ELSE LET secret == SecretOf(parameters[1])
                  pos == RFind(parameters[2], " ")
              IN  IF pos = npos
                  THEN [res |-> DENY, parameters |-> parameters,
                        numeric |-> "This oper login requires a TOTP token.", penalty |-> 0]
                  ELSE LET otp == SubSeq(parameters[2], pos + 2, Len(parameters[2]))
                           erased == [parameters EXCEPT ![2] = SubSeq(parameters[2], 1, pos)]
                       IN  IF Validate(hash, window, t, secret, otp, ub)
                           THEN [res |-> PASSTHRU, parameters |-> erased, numeric |-> "", penalty |-> 0]
                           ELSE [res |-> DENY, parameters |-> erased,
                                 numeric |-> "Invalid oper credentials", penalty |-> FloodPenalty]
    ELSE pass

----------------------------------------------------------------------------
(* Module specification *)

(* no codec operation has been made *)
CodecIdle ==
    /\ cop = "init"
    /\ input = << >>
    /\ elen = 0
    /\ enc = << >>
    /\ text = << >>
    /\ dec = << >>
    /\ dec2 = << >>

(* what the dynamic_reference Hash resolves to *)
Resolve(name, services) == IF name \in services THEN name ELSE NoHash
Hash == Resolve(hashName, loaded)

Idle ==
    [op |-> "idle", hash |-> NoHash, window |-> 0, t |-> 0, secret |-> << >>,
     code |-> << >>, time |-> 0, ub |-> [shift |-> 0, kept |-> FALSE, junk |-> 0],
     command |-> "", parameters |-> << >>, validated |-> FALSE,
     ret |-> << >>, ok |-> FALSE, out |-> [res |-> "", parameters |-> << >>, numeric |-> "", penalty |-> 0]]

(* the record of a call made in the current configuration *)
Here(op, ub) == [Idle EXCEPT !.op = op, !.hash = Hash, !.window = Window, !.t = now, !.ub = ub]

(* codes the callers try: the codes of the bound algorithm at the counters *)
(* 0..MaxCounter, the empty string, a 5-digit string, a 6-digit string     *)
OtherCodes == { << >>, << "1", "2", "3", "4", "5" >>, << "0", "0", "0", "0", "0", "0" >> }
TriedCodes(secret, ub) ==
    {Generate(hashName, secret, ToULong(c), ub) : c \in 0..MaxCounter} \cup OtherCodes

(* the oper passwords tried: a password alone, or followed by a space and a code *)
Passwords == { << "p" >>, << "p", " ", "q" >> }
TriedPasswords(ub) ==
    Passwords \cup {p \o << " " >> \o c : p \in Passwords, c \in TriedCodes(SecretAligned, ub)}

(* the oper block's secret has no partial tail, so only the junk read matters *)
HookUB == {u \in EngineUB : u.shift = 0 /\ ~u.kept}

Init ==
    /\ hashName \in ProviderNames
    /\ loaded \in SUBSET ProviderNames
    /\ Window \in 0..MaxWindow
    /\ now = 0
    /\ call = Idle
    /\ CodecIdle

(* ModuleTOTP::OnRehash *)
OnRehash ==
    /\ call.op = "idle"
    /\ \E w \in 0..MaxWindow, name \in ProviderNames :
          /\ Window' = w
          /\ hashName' = name
    /\ UNCHANGED <<loaded, now, call>>
    /\ UNCHANGED codecVars

(* a hash provider module is loaded: its service gets registered *)
LoadProvider ==
    /\ call.op = "idle"
    /\ \E name \in ProviderNames \ loaded : loaded' = loaded \cup {name}
    /\ UNCHANGED <<hashName, Window, now, call>>
    /\ UNCHANGED codecVars

(* a hash provider module is unloaded *)
UnloadProvider ==
    /\ call.op = "idle"
    /\ \E name \in loaded : loaded' = loaded \ {name}
    /\ UNCHANGED <<hashName, Window, now, call>>
    /\ UNCHANGED codecVars

(* the server clock advances *)
Tick ==
    /\ call.op = "idle"
    /\ now + TickSeconds <= MaxTicks * TickSeconds
    /\ now' = now + TickSeconds
    /\ UNCHANGED <<hashName, loaded, Window, call>>
    /\ UNCHANGED codecVars

(* totp.Generate(secret, time) *)
GenerateCall ==
    /\ call.op = "idle"
    /\ \E secret \in Secrets, c \in 0..MaxCounter, ub \in EngineUB :
          call' = [Here("Generate", ub) EXCEPT
                      !.secret = secret, !.time = c,
                      !.ret = Generate(Hash, secret, ToULong(c), ub)]
    /\ UNCHANGED <<hashName, loaded, Window, now>>
    /\ UNCHANGED codecVars

(* totp.Validate(secret, code) *)
ValidateCall ==
    /\ call.op = "idle"
    /\ \E secret \in Secrets, ub \in EngineUB :
          \E code \in TriedCodes(secret, ub) :
             call' = [Here("Validate", ub) EXCEPT
                         !.secret = secret, !.code = code,
                         !.ok = Validate(Hash, Window, now, secret, code, ub)]
    /\ UNCHANGED <<hashName, loaded, Window, now>>
    /\ UNCHANGED codecVars

(* ModuleTOTP::OnPreCommand(command, parameters, user, validated, line) *)
OnPreCommand ==
    /\ call.op = "idle"
    /\ \E ub \in HookUB :
          \E command \in {"OPER", "PRIVMSG"}, validated \in BOOLEAN,
             parameters \in {<< "admin" >>} \cup
                            {<< o, p >> : o \in OperNames \cup {"nobody"}, p \in TriedPasswords(ub)} :
             /\ (command # "OPER" \/ ~validated) => parameters \in {<< "admin" >>, << "admin", << "p", " ", "q" >> >>}
             /\ call' = [Here("OnPreCommand", ub) EXCEPT
                            !.command = command, !.parameters = parameters, !.validated = validated,
                            !.out = PreCommand(Hash, Window, now, command, parameters, validated, ub)]
    /\ UNCHANGED <<hashName, loaded, Window, now>>
    /\ UNCHANGED codecVars

(* the handler has returned and its result has been consumed *)
Return ==
    /\ call.op # "idle"
    /\ call' = Idle
    /\ UNCHANGED <<hashName, loaded, Window, now>>
    /\ UNCHANGED codecVars

Next ==
    \/ OnRehash
    \/ LoadProvider
    \/ UnloadProvider
    \/ Tick
    \/ GenerateCall
    \/ ValidateCall
    \/ OnPreCommand
    \/ Return

Spec == Init /\ [][Next]_vars

----------------------------------------------------------------------------
(* the characters of s that Decode does not skip *)
Strip(s) == SelectSeq(s, LAMBDA c : Find(c) < 32)

----------------------------------------------------------------------------
(* Codec specification: the inputs are drawn by Init, the actions apply    *)
(* Encode and Decode to them.                                              *)

EngineIdle ==
    /\ hashName = "sha256"
    /\ loaded = {}
    /\ Window = DefaultWindow
    /\ now = 0
    /\ call = Idle

CodecInit ==
    /\ EngineIdle
    /\ cop = "init"
    /\ enc = << >>
    /\ dec = << >>
    /\ dec2 = << >>
    /\ \/ /\ input \in ByteSeqs
          /\ elen \in {0} \cup {n \in 1..(MaxLen + 1) : n - Len(input) \in {-1, 1}}
          /\ text = << >>
       \/ /\ input = << >>
          /\ elen = 0
          /\ text \in Texts

(* enc = Base32::Encode(input, elen) *)
EncodeCall ==
    /\ cop = "init"
    /\ text = << >>
    /\ cop' = "Encode"
    /\ enc' = Encode(input, elen)
    /\ UNCHANGED <<input, elen, text, dec, dec2>>
    /\ UNCHANGED engineVars

(* dec = Base32::Decode(enc) *)
DecodeEncoded ==
    /\ cop = "Encode"
    /\ \E ub \in CodecUB :
          /\ cop' = "RoundTrip"
          /\ text' = enc
          /\ dec' = Decode(enc, ub)
    /\ UNCHANGED <<input, elen, enc, dec2>>
    /\ UNCHANGED engineVars

(* dec = Base32::Decode(text), dec2 = Base32::Decode(text without the      *)
(* characters outside the alphabet), in the same build                     *)
DecodeText ==
    /\ cop = "init"
    /\ input = << >>
    /\ \E ub \in CodecUB :
          /\ cop' = "Decode"
          /\ dec' = Decode(text, ub)
          /\ dec2' = Decode(Strip(text), ub)
    /\ UNCHANGED <<input, elen, enc, text>>
    /\ UNCHANGED engineVars

CodecNext == EncodeCall \/ DecodeEncoded \/ DecodeText

CodecSpec == CodecInit /\ [][CodecNext]_vars

----------------------------------------------------------------------------
(* Properties *)

(* the counters lo..hi that exist as unsigned counters *)
Counters(lo, hi) == {c \in lo..hi : c >= 0}

(* the code Generate yields in the configuration of the recorded call *)
CodeAt(c) == Generate(call.hash, call.secret, ToULong(c), call.ub)

(* C1: with no HMAC provider configured, Generate returns the empty        *)
(* "unavailable" result and Validate returns false for every secret,       *)
(* candidate code (the empty string included) and window.                  *)
C1_UnavailableRejects ==
    call.hash = NoHash =>
        /\ call.op = "Generate" => call.ret = << >>
        /\ call.op = "Validate" => call.ok = FALSE

(* C2: with a provider configured, Validate returns true exactly when the  *)
(* code equals Generate(secret, c) for some counter c with                 *)
(* floor((now - 30*window)/30) <= c < floor((now + 30*window)/30).         *)
C2_HalfOpenRange ==
    (call.op = "Validate" /\ call.hash # NoHash) =>
        (call.ok <=>
            \E c \in Counters((call.t - 30 * call.window) \div 30,
                              ((call.t + 30 * call.window) \div 30) - 1) :
                CodeAt(c) = call.code)

(* C3: with a provider configured, Validate accepts the code of every      *)
(* counter c with floor(now/30) - window <= c <= floor(now/30) + window.   *)
C3_WindowEachSide ==
    (/\ call.op = "Validate"
     /\ call.hash # NoHash
     /\ \E c \in Counters((call.t \div 30) - call.window, (call.t \div 30) + call.window) :
            CodeAt(c) = call.code)
    => call.ok

(* the length Encode works on, and the bytes it encodes *)
EffLen == IF elen = 0 THEN Len(input) ELSE elen
EffBytes == [i \in 1..EffLen |-> IF i <= Len(input) THEN input[i] ELSE 0]

(* C4: for a byte sequence whose length is a positive multiple of 5,       *)
(* Decode(Encode(bytes)) is exactly the original bytes.                    *)
C4_AlignedRoundTrip ==
    (cop = "RoundTrip" /\ EffLen > 0 /\ EffLen % 5 = 0) => dec = EffBytes

C4_Witness ==
    /\ cop = "RoundTrip"
    /\ elen = 0
    /\ Len(input) = 10
    /\ input[6] = 165
    /\ input[10] = 255
    /\ dec = input

(* C5: for a byte sequence whose length is not a multiple of 5,            *)
(* Decode(Encode(bytes)) is the original bytes.                            *)
C5_PaddedRoundTrip ==
    (cop = "RoundTrip" /\ EffLen % 5 # 0) => dec = EffBytes

(* C6: Encode returns 8 * ceil(n/5) characters: alphabet symbols followed  *)
(* by exactly p '=' characters, p given by n mod 5: 0->0, 1->6, 2->3,      *)
(* 3->3, 4->1.                                                             *)
C6_EncodeShape ==
    cop \in {"Encode", "RoundTrip"} =>
        LET n == EffLen
            p == CASE n % 5 = 0 -> 0
                   [] n % 5 = 1 -> 6
                   [] n % 5 = 2 -> 3
                   [] n % 5 = 3 -> 3
                   [] n % 5 = 4 -> 1
        IN  /\ Len(enc) = 8 * ((n + 4) \div 5)
            /\ \A i \in 1..Len(enc) :
                  IF i <= Len(enc) - p
                  THEN \E k \in 1..32 : Base32Chars[k] = enc[i]
                  ELSE enc[i] = "="

C6_Witness ==
    /\ cop = "Encode"
    /\ EffLen = 7
    /\ Len(enc) = 16
    /\ enc[13] # "="
    /\ enc[14] = "="

(* C7: Decode(s) equals Decode(s') where s' is s without the characters    *)
(* outside the alphabet.                                                   *)
C7_LenientDecode ==
    cop = "Decode" => dec = dec2

DigitValue(ch) == (CHOOSE k \in 1..10 : Digits[k] = ch) - 1

RECURSIVE DecimalValue(_)
DecimalValue(str) ==
    IF str = << >> THEN 0
    ELSE 10 * DecimalValue(SubSeq(str, 1, Len(str) - 1)) + DigitValue(str[Len(str)])

(* the four bytes Generate reads at the offset, as a 31-bit number mod 10^6 *)
TruncatedValue ==
    LET digest == Digest(call.hash, call.secret, ToULong(call.time), call.ub)
        offset == digest[Len(digest)] % 16
        b(i)   == HashAt(digest, offset + i, call.ub)
    IN  ((b(0) % 128) * 16777216 + b(1) * 65536 + b(2) * 256 + b(3)) % 1000000

(* C8: with a provider, Generate returns exactly 6 decimal digits, the     *)
(* value (word at the offset & 0x7FFFFFFF) mod 1000000 left-padded with    *)
(* '0'; it returns the empty result only when no provider is configured.   *)
C8_SixDigitCode ==
    call.op = "Generate" =>
        IF call.hash = NoHash THEN call.ret = << >>
        ELSE /\ Len(call.ret) = 6
             /\ \A i \in 1..6 : \E k \in 1..10 : Digits[k] = call.ret[i]
             /\ DecimalValue(call.ret) = TruncatedValue

C8_Witness ==
    /\ call.op = "Generate"
    /\ call.hash # NoHash
    /\ Len(call.ret) = 6
    /\ call.ret[1] = "0"
    /\ TruncatedValue < 100000

(* C9: a validated OPER naming an oper block with a totpsecret passes only *)
(* if a provider is loaded, the password contains a space and the text     *)
(* after the last space is a code of the block's secret at some counter of *)
(* the validation range; every other such attempt is denied.               *)
C9_OperGate ==
    (/\ call.op = "OnPreCommand"
     /\ call.validated
     /\ call.command = "OPER"
     /\ Len(call.parameters) > 1
     /\ call.parameters[1] \in OperNames
     /\ HasSecret(call.parameters[1]))
    =>
    LET pw == call.parameters[2]
        accepted ==
            /\ call.hash # NoHash
            /\ \E i \in 1..Len(pw) :
                  /\ pw[i] = " "
                  /\ \A j \in (i + 1)..Len(pw) : pw[j] # " "
                  /\ \E c \in Counters((call.t - 30 * call.window) \div 30,
                                       ((call.t + 30 * call.window) \div 30) - 1) :
                        Generate(call.hash, SecretOf(call.parameters[1]), ToULong(c), call.ub)
                            = SubSeq(pw, i + 1, Len(pw))
    IN  /\ call.out.res = PASSTHRU => accepted
        /\ ~accepted => call.out.res = DENY

(* C10: the four byte indices offset .. offset+3 read by Generate are      *)
(* inside the digest, for every provider digest size and digest value.     *)
C10_TruncationInBounds ==
    (call.op = "Generate" /\ call.hash # NoHash) =>
        LET digest == Digest(call.hash, call.secret, ToULong(call.time), call.ub)
        IN  \A i \in 0..3 : Offset(call.hash, digest) + i < OutSize(call.hash)

====
